---------------------------- MODULE Spec2Model ----------------------------
(***************************************************************************)
(* The stdio-to-HTTP bridge of dev-utils/wrapper.py as a state machine.    *)
(*                                                                         *)
(* Text is a sequence of one-character strings, so that strip(), the       *)
(* trailing newline of a line read from stdin and the newline appended to  *)
(* a response are what the code makes them.  The two output streams are    *)
(* sequences of such characters; a log tag and the fixed parts of a log    *)
(* message are single tokens of the error stream.                          *)
(***************************************************************************)
EXTENDS Integers, Sequences, FiniteSets, TLC

(***************************************************************************)
(* Bounds and input alphabets                                              *)
(***************************************************************************)
\* Number of lines of the input stream.
MaxLines == 2

\* The lines stdin can deliver: empty, whitespace-only, plain, padded.
\* Iterating sys.stdin yields each line with its terminating newline.
Lines ==
    { <<"\n">>,
      <<" ", "\t", "\n">>,
      <<"a", "\n">>,
      <<" ", "a", " ", "b", "\t", "\n">> }

\* Status codes the downstream server answers with.
Statuses == {200, 404, 500}

\* Response bodies: empty, one line, and a body holding a newline of its own.
Bodies == { <<>>, <<"r">>, <<"r", "\n", "s">> }

\* str(e) of the requests.exceptions.RequestException raised by the transport.
Errors == { <<"Connection refused">>, <<"Read timed out">> }

\* Exit statuses of an interpreter that ends on an uncaught KeyboardInterrupt.
UncaughtExit == {1, 130}

(***************************************************************************)
(* Program constants                                                        *)
(***************************************************************************)
HTTP_SERVER_URL == "http://localhost:9000/mcp/v1/chinook/"
TAG == "BRIDGE-LOG: "
LogPrefixLen == 100

(***************************************************************************)
(* Pure helpers                                                             *)
(***************************************************************************)
Whitespace == {" ", "\t", "\n"}

RECURSIVE LStrip(_)
LStrip(s) ==
    IF s = <<>> THEN s
    ELSE IF Head(s) \in Whitespace THEN LStrip(Tail(s)) ELSE s

RECURSIVE RStrip(_)
RStrip(s) ==
    IF s = <<>> THEN s
    ELSE IF s[Len(s)] \in Whitespace THEN RStrip(SubSeq(s, 1, Len(s) - 1)) ELSE s

\* str.strip()
Strip(s) == RStrip(LStrip(s))

\* payload[:n]
Slice(s, n) == SubSeq(s, 1, IF Len(s) < n THEN Len(s) ELSE n)

\* f"{response.status_code}"
StatusText(c) ==
    CASE c = 200 -> "200"
      [] c = 404 -> "404"
      [] c = 500 -> "500"
      [] OTHER   -> "???"

\* What log(message) writes to sys.stderr.
LogText(message) == <<TAG>> \o message \o <<"\n">>

ReceivedMsg(p) == <<"Received Request: ">> \o Slice(p, LogPrefixLen) \o <<"...">>
ServerErrorMsg(r) == <<"Server Error: ", StatusText(r.status_code), " - ">> \o r.text
ConnectionErrorMsg(x) == <<"HTTP Connection Error: ">> \o x
StartingMsg == <<"Starting MCP Stdio-to-HTTP Bridge...">>
ShutdownMsg == <<"Bridge shutting down.">>

NoResponse == [status_code |-> 0, text |-> <<>>]

(***************************************************************************)
(* State                                                                    *)
(***************************************************************************)
VARIABLES
    stdin,        \* the whole input stream, a sequence of lines
    pos,          \* number of lines read from stdin
    line,         \* loop variable of "for line in sys.stdin"
    payload,      \* line.strip()
    response,     \* last value returned by requests.post
    e,            \* last RequestException caught, as str(e)
    posts,        \* history: the POSTs issued, in order
    inflight,     \* number of requests issued and not yet completed
    received,     \* history: the outcome of every completed request
    out,          \* characters written to sys.stdout
    flushed,      \* how many of them sys.stdout.flush() has pushed out
    err,          \* characters and tokens written to sys.stderr
    outMark,      \* history: Len(out) when the current line was read
    errMark,      \* history: Len(err) when the current line was read
    pc,           \* position of the process in main()
    interrupted,  \* an interrupt signal has been delivered
    intMark,      \* history: where the process was when it was delivered
    exitCode      \* exit status of the process, -1 while it runs

vars == << stdin, pos, line, payload, response, e, posts, inflight, received,
           out, flushed, err, outMark, errMark, pc, interrupted, intMark,
           exitCode >>

\* Positions inside the outer try block (lines 16-42).
InTry == {"read", "got", "post", "inflight", "resp", "flush", "except"}
Terminated == {"done", "crashed"}

RECURSIVE SeqsUpTo(_, _)
SeqsUpTo(S, n) ==
    IF n = 0 THEN { <<>> }
    ELSE LET shorter == SeqsUpTo(S, n - 1)
         IN  shorter \cup { Append(s, x) : s \in shorter, x \in S }

Init ==
    /\ stdin \in SeqsUpTo(Lines, MaxLines)
    /\ pos = 0
    /\ line = <<>>
    /\ payload = <<>>
    /\ response = NoResponse
    /\ e = <<>>
    /\ posts = <<>>
    /\ inflight = 0
    /\ received = <<>>
    /\ out = <<>>
    /\ flushed = 0
    /\ err = <<>>
    /\ outMark = 0
    /\ errMark = 0
    /\ pc = "start"
    /\ interrupted = FALSE
    /\ intMark = [at |-> "none", posts |-> 0, out |-> 0]
    /\ exitCode = -1

(***************************************************************************)
(* Steps of main()                                                          *)
(***************************************************************************)
\* line 14: log("Starting ..."), before the try block is entered.
Start ==
    /\ pc = "start"
    /\ err' = err \o LogText(StartingMsg)
    /\ pc' = "read"
    /\ UNCHANGED << stdin, pos, line, payload, response, e, posts, inflight,
                    received, out, flushed, outMark, errMark, interrupted,
                    intMark, exitCode >>

\* line 18: the iterator yields the next line.
ReadLine ==
    /\ pc = "read"
    /\ pos < Len(stdin)
    /\ pos' = pos + 1
    /\ line' = stdin[pos + 1]
    /\ outMark' = Len(out)
    /\ errMark' = Len(err)
    /\ pc' = "got"
    /\ UNCHANGED << stdin, payload, response, e, posts, inflight, received,
                    out, flushed, err, interrupted, intMark, exitCode >>

\* line 18: the iterator is exhausted; the loop and the try block end.
ReadEOF ==
    /\ pc = "read"
    /\ pos = Len(stdin)
    /\ pc' = "ret"
    /\ UNCHANGED << stdin, pos, line, payload, response, e, posts, inflight,
                    received, out, flushed, err, outMark, errMark, interrupted,
                    intMark, exitCode >>

\* SkipBlank without the "continue": the blank line is handled as a request.
SkipBlank_Forwarded ==
    /\ pc = "got"
    /\ Strip(line) = <<>>
    /\ payload' = Strip(line)
    /\ err' = err \o LogText(ReceivedMsg(payload'))
    /\ pc' = "post"
    /\ UNCHANGED << stdin, pos, line, response, e, posts, inflight, received,
                    out, flushed, outMark, errMark, interrupted, intMark,
                    exitCode >>

\* lines 19-20: "if not line.strip(): continue".
SkipBlank ==
    /\ pc = "got"
    /\ Strip(line) = <<>>
    /\ pc' = "read"
    /\ UNCHANGED << stdin, pos, line, payload, response, e, posts, inflight,
                    received, out, flushed, err, outMark, errMark, interrupted,
                    intMark, exitCode >>

\* lines 22-23: payload = line.strip(); log("Received Request: ...").
ReceiveRequest ==
    /\ pc = "got"
    /\ Strip(line) # <<>>
    /\ payload' = Strip(line)
    /\ err' = err \o LogText(ReceivedMsg(payload'))
    /\ pc' = "post"
    /\ UNCHANGED << stdin, pos, line, response, e, posts, inflight, received,
                    out, flushed, outMark, errMark, interrupted, intMark,
                    exitCode >>

\* IssuePost with the line sent as it was read, not the stripped payload.
IssuePost_RawLine ==
    /\ pc = "post"
    /\ posts' = Append(posts, [url |-> HTTP_SERVER_URL, data |-> line])
    /\ inflight' = inflight + 1
    /\ pc' = "inflight"
    /\ UNCHANGED << stdin, pos, line, payload, response, e, received, out,
                    flushed, err, outMark, errMark, interrupted, intMark,
                    exitCode >>

\* lines 27-32: requests.post sends the request.
IssuePost ==
    /\ pc = "post"
    /\ posts' = Append(posts, [url |-> HTTP_SERVER_URL, data |-> payload])
    /\ inflight' = inflight + 1
    /\ pc' = "inflight"
    /\ UNCHANGED << stdin, pos, line, payload, response, e, received, out,
                    flushed, err, outMark, errMark, interrupted, intMark,
                    exitCode >>

\* line 27: requests.post returns a response.
PostReturns ==
    /\ pc = "inflight"
    /\ \E s \in Statuses, b \in Bodies :
          /\ response' = [status_code |-> s, text |-> b]
          /\ received' = Append(received,
                                [kind |-> "response", status_code |-> s, text |-> b])
    /\ inflight' = inflight - 1
    /\ pc' = "resp"
    /\ UNCHANGED << stdin, pos, line, payload, e, posts, out, flushed, err,
                    outMark, errMark, interrupted, intMark, exitCode >>

\* lines 27, 41: requests.post raises a RequestException (refused, timeout, DNS).
PostRaises ==
    /\ pc = "inflight"
    /\ \E x \in Errors :
          /\ e' = x
          /\ received' = Append(received,
                                [kind |-> "exception", status_code |-> 0, text |-> x])
    /\ inflight' = inflight - 1
    /\ pc' = "except"
    /\ UNCHANGED << stdin, pos, line, payload, response, posts, out, flushed,
                    err, outMark, errMark, interrupted, intMark, exitCode >>

\* WriteResponse without the newline after the body.
WriteResponse_NoNewline ==
    /\ pc = "resp"
    /\ response.status_code = 200
    /\ out' = out \o response.text
    /\ pc' = "flush"
    /\ UNCHANGED << stdin, pos, line, payload, response, e, posts, inflight,
                    received, flushed, err, outMark, errMark, interrupted,
                    intMark, exitCode >>

\* lines 34-36: status 200, sys.stdout.write(response.text + "\n").
WriteResponse ==
    /\ pc = "resp"
    /\ response.status_code = 200
    /\ out' = out \o response.text \o <<"\n">>
    /\ pc' = "flush"
    /\ UNCHANGED << stdin, pos, line, payload, response, e, posts, inflight,
                    received, flushed, err, outMark, errMark, interrupted,
                    intMark, exitCode >>

\* FlushOutput with the flush left out.
FlushOutput_Missing ==
    /\ pc = "flush"
    /\ pc' = "read"
    /\ UNCHANGED << stdin, pos, line, payload, response, e, posts, inflight,
                    received, out, flushed, err, outMark, errMark, interrupted,
                    intMark, exitCode >>

\* line 37: sys.stdout.flush().
FlushOutput ==
    /\ pc = "flush"
    /\ flushed' = Len(out)
    /\ pc' = "read"
    /\ UNCHANGED << stdin, pos, line, payload, response, e, posts, inflight,
                    received, out, err, outMark, errMark, interrupted, intMark,
                    exitCode >>

\* LogServerError with the status code left out of the message.
LogServerError_NoStatus ==
    /\ pc = "resp"
    /\ response.status_code # 200
    /\ err' = err \o LogText(<<"Server Error: ">> \o response.text)
    /\ pc' = "read"
    /\ UNCHANGED << stdin, pos, line, payload, response, e, posts, inflight,
                    received, out, flushed, outMark, errMark, interrupted,
                    intMark, exitCode >>

\* LogServerError printing to sys.stdout instead of logging to sys.stderr.
LogServerError_ToStdout ==
    /\ pc = "resp"
    /\ response.status_code # 200
    /\ out' = out \o LogText(ServerErrorMsg(response))
    /\ pc' = "read"
    /\ UNCHANGED << stdin, pos, line, payload, response, e, posts, inflight,
                    received, flushed, err, outMark, errMark, interrupted,
                    intMark, exitCode >>

\* LogServerError followed by a break out of the loop.
LogServerError_Break ==
    /\ pc = "resp"
    /\ response.status_code # 200
    /\ err' = err \o LogText(ServerErrorMsg(response))
    /\ pc' = "ret"
    /\ UNCHANGED << stdin, pos, line, payload, response, e, posts, inflight,
                    received, out, flushed, outMark, errMark, interrupted,
                    intMark, exitCode >>

\* lines 38-39: any other status, log("Server Error: ...").
LogServerError ==
    /\ pc = "resp"
    /\ response.status_code # 200
    /\ err' = err \o LogText(ServerErrorMsg(response))
    /\ pc' = "read"
    /\ UNCHANGED << stdin, pos, line, payload, response, e, posts, inflight,
                    received, out, flushed, outMark, errMark, interrupted,
                    intMark, exitCode >>

\* LogConnectionError with an empty handler: the failure is swallowed.
LogConnectionError_Silent ==
    /\ pc = "except"
    /\ pc' = "read"
    /\ UNCHANGED << stdin, pos, line, payload, response, e, posts, inflight,
                    received, out, flushed, err, outMark, errMark, interrupted,
                    intMark, exitCode >>

\* LogConnectionError that logs and raises again: the process ends.
LogConnectionError_Fatal ==
    /\ pc = "except"
    /\ err' = err \o LogText(ConnectionErrorMsg(e))
    /\ pc' = "crashed"
    /\ exitCode' = 1
    /\ UNCHANGED << stdin, pos, line, payload, response, e, posts, inflight,
                    received, out, flushed, outMark, errMark, interrupted,
                    intMark >>

\* lines 41-42: except RequestException, log("HTTP Connection Error: ...").
LogConnectionError ==
    /\ pc = "except"
    /\ err' = err \o LogText(ConnectionErrorMsg(e))
    /\ pc' = "read"
    /\ UNCHANGED << stdin, pos, line, payload, response, e, posts, inflight,
                    received, out, flushed, outMark, errMark, interrupted,
                    intMark, exitCode >>

\* lines 44-45: except KeyboardInterrupt, log("Bridge shutting down.").
Shutdown ==
    /\ pc = "handler"
    /\ err' = err \o LogText(ShutdownMsg)
    /\ pc' = "ret"
    /\ UNCHANGED << stdin, pos, line, payload, response, e, posts, inflight,
                    received, out, flushed, outMark, errMark, interrupted,
                    intMark, exitCode >>

\* lines 47-48: main() returns and the interpreter exits with status 0.
Exit ==
    /\ pc = "ret"
    /\ pc' = "done"
    /\ exitCode' = 0
    /\ UNCHANGED << stdin, pos, line, payload, response, e, posts, inflight,
                    received, out, flushed, err, outMark, errMark, interrupted,
                    intMark >>

(***************************************************************************)
(* The interrupt signal (SIGINT), raised as KeyboardInterrupt in main()     *)
(***************************************************************************)
\* Delivered inside the try block of lines 16-42: RequestException does not
\* match it, the handler of line 44 does.  A pending request is abandoned.
InterruptInTry ==
    /\ ~interrupted
    /\ pc \in InTry
    /\ interrupted' = TRUE
    /\ intMark' = [at |-> pc, posts |-> Len(posts), out |-> Len(out)]
    /\ inflight' = 0
    /\ pc' = "handler"
    /\ UNCHANGED << stdin, pos, line, payload, response, e, posts, received,
                    out, flushed, err, outMark, errMark, exitCode >>

\* Delivered during line 14 or after the try block has ended: nothing catches
\* it, the interpreter prints the traceback and ends with a failure status.
InterruptOutsideTry ==
    /\ ~interrupted
    /\ pc \in {"start", "ret"}
    /\ interrupted' = TRUE
    /\ intMark' = [at |-> pc, posts |-> Len(posts), out |-> Len(out)]
    /\ err' = err \o <<"Traceback (most recent call last): KeyboardInterrupt", "\n">>
    /\ pc' = "crashed"
    /\ exitCode' \in UncaughtExit
    /\ UNCHANGED << stdin, pos, line, payload, response, e, posts, inflight,
                    received, out, flushed, outMark, errMark >>

ProgramStep ==
    \/ Start
    \/ ReadLine
    \/ ReadEOF
    \/ SkipBlank
    \/ ReceiveRequest
    \/ IssuePost
    \/ PostReturns
    \/ PostRaises
    \/ WriteResponse
    \/ FlushOutput
    \/ LogServerError
    \/ LogConnectionError
    \/ Shutdown
    \/ Exit

Next ==
    \/ ProgramStep
    \/ InterruptInTry
    \/ InterruptOutsideTry

Spec == Init /\ [][Next]_vars

\* Every step of the single thread is eventually taken, and the 30 s timeout of
\* line 31 makes every request end; the interrupt is never obliged to arrive.
FairSpec == Spec /\ WF_vars(ProgramStep)

(***************************************************************************)
(* Vocabulary of the properties                                             *)
(***************************************************************************)
IsWhite(c) == c = " " \/ c = "\t" \/ c = "\n"

\* A line with no character other than whitespace.
IsBlankLine(l) == \A i \in DOMAIN l : IsWhite(l[i])

\* A line as the text before its terminating newline.
Chomp(l) ==
    IF l # <<>> /\ l[Len(l)] = "\n" THEN SubSeq(l, 1, Len(l) - 1) ELSE l

\* b is l without the whitespace around it, stated without strip().
IsTrimOf(b, l) ==
    /\ b # <<>>
    /\ ~IsWhite(b[1])
    /\ ~IsWhite(b[Len(b)])
    /\ \E i \in 0..Len(l) :
          /\ i + Len(b) <= Len(l)
          /\ SubSeq(l, i + 1, i + Len(b)) = b
          /\ \A k \in 1..Len(l) : (k <= i \/ k > i + Len(b)) => IsWhite(l[k])

\* The non-blank lines among the lines read so far, in the order read.
NonBlankRead == SelectSeq(SubSeq(stdin, 1, pos), LAMBDA l : ~IsBlankLine(l))
NonBlankAll == SelectSeq(stdin, LAMBDA l : ~IsBlankLine(l))

\* What the 200 responses of a history put on the output stream.
RECURSIVE SuccessText(_)
SuccessText(h) ==
    IF h = <<>> THEN <<>>
    ELSE SuccessText(SubSeq(h, 1, Len(h) - 1)) \o
         (IF h[Len(h)].kind = "response" /\ h[Len(h)].status_code = 200
          THEN h[Len(h)].text \o <<"\n">>
          ELSE <<>>)

\* The exchange of the line read last has run to its end.
ExchangeDone == pc = "read" /\ pos > 0 /\ ~IsBlankLine(stdin[pos])
LastOutcome == received[Len(received)]
OutDelta == SubSeq(out, outMark + 1, Len(out))
ErrDelta == SubSeq(err, errMark + 1, Len(err))

\* Number of diagnostics (log records) in a piece of the error stream.
Diagnostics(s) == Cardinality({ i \in DOMAIN s : s[i] = TAG })

\* Position i of s starts the record "TAG head detail... newline" that ends s.
EndsWithRecord(s, head, detail) ==
    \E i \in DOMAIN s :
        /\ s[i] = TAG
        /\ SubSeq(s, i + 1, Len(s)) = head \o detail \o <<"\n">>

LogTokens ==
    { TAG, "Received Request: ", "...", "Server Error: ", " - ",
      "HTTP Connection Error: ", "200", "404", "500" }
    \cup { StartingMsg[1], ShutdownMsg[1] }
    \cup { x[1] : x \in Errors }

(***************************************************************************)
(* C1 - one POST per non-blank line                                         *)
(***************************************************************************)
\* The POSTs issued are those of the non-blank lines read, one each and in
\* order; only the POST of the line read last may be missing, and only while
\* it is still to be issued or after an interrupt.
PostsFollowLines ==
    /\ Len(posts) <= Len(NonBlankRead)
    /\ Len(NonBlankRead) <= Len(posts) + 1
    /\ Len(posts) < Len(NonBlankRead)
          <=> \/ pc \in {"got", "post"} /\ ~IsBlankLine(line)
              \/ interrupted /\ intMark.at \in {"got", "post"} /\ ~IsBlankLine(line)
    /\ \A i \in 1..Len(posts) : posts[i].url = HTTP_SERVER_URL

\* C1 (as amended): every non-blank line L read whose exchange no interrupt
\* cuts short gets exactly one POST to the configured endpoint, and the body
\* of that POST is L without its surrounding whitespace.
C1_OnePostWithTrimmedBody ==
    /\ PostsFollowLines
    /\ \A i \in 1..Len(posts) : IsTrimOf(posts[i].data, NonBlankRead[i])

\* C1 (as claimed): every non-blank line L read gets exactly one POST whose
\* body is L itself, the text of the line as it was read (a POST still to be
\* issued or cut short by an interrupt is not held against the claim).
C1_OnePostWithBodyEqualToLine ==
    /\ PostsFollowLines
    /\ \A i \in 1..Len(posts) : posts[i].data = Chomp(NonBlankRead[i])

\* C1 witness: two non-blank lines have been read and posted, one of them
\* padded with whitespace.
C1_Witness ==
    /\ pc = "read"
    /\ Len(posts) = 2
    /\ Len(NonBlankRead) = 2
    /\ \E i \in 1..2 : Chomp(NonBlankRead[i]) # posts[i].data

(***************************************************************************)
(* C2 - a 200 response                                                      *)
(***************************************************************************)
Answered200 ==
    /\ ExchangeDone
    /\ LastOutcome.kind = "response"
    /\ LastOutcome.status_code = 200

AnsweredNon200 ==
    /\ ExchangeDone
    /\ LastOutcome.kind = "response"
    /\ LastOutcome.status_code # 200

TransportFailed ==
    /\ ExchangeDone
    /\ LastOutcome.kind = "exception"

Effects == << payload, response, e, posts, inflight, received, out, flushed, err >>

\* C5: reading a blank or whitespace-only line and skipping it changes
\* nothing but the read position: no request, no output, no diagnostic, and
\* unless an interrupt arrives the process is back at the read of the next line.
C5_BlankLineChangesNothing ==
    [][ /\ (pc = "read" /\ pc' = "got" /\ IsBlankLine(line'))
            => (pos' = pos + 1 /\ UNCHANGED Effects)
        /\ (pc = "got" /\ IsBlankLine(line) /\ interrupted' = interrupted)
            => (pc' = "read" /\ pos' = pos /\ UNCHANGED Effects)
      ]_vars

\* C5 witness: a whitespace-only line has been skipped after a line that was
\* posted.
C5_Witness ==
    /\ pc = "read"
    /\ pos = 2
    /\ IsBlankLine(stdin[2])
    /\ stdin[2] # <<"\n">>
    /\ Len(posts) = 1

(***************************************************************************)
(* C6 - a failed exchange is not fatal                                      *)
(***************************************************************************)
\* The exchange of the line read last has failed and is about to be logged.
Failing == (pc = "resp" /\ response.status_code # 200) \/ pc = "except"

\* The exchange of line p has failed and line p + 1 is there to be read.
FailedBefore(p) ==
    /\ ExchangeDone
    /\ pos = p
    /\ p < Len(stdin)
    /\ (LastOutcome.kind = "exception" \/ LastOutcome.status_code # 200)

\* Line p + 1 has been read and, when it is not blank, its POST is issued.
TakenUp(p) ==
    /\ pos = p + 1
    /\ \/ IsBlankLine(stdin[p + 1])
       \/ /\ Len(posts) = Len(received) + 1
          /\ IsTrimOf(posts[Len(posts)].data, stdin[p + 1])

\* C6: a failed exchange (a status other than 200, or a transport failure)
\* never ends the process: the step that logs it leads back to the read of
\* the next line, and when a next line is there and no interrupt arrives the
\* process reads it and, when it is not blank, issues its POST.
C6_FailureIsNotFatal ==
    /\ [][ (Failing /\ interrupted' = interrupted)
              => (pc' = "read" /\ exitCode' = -1 /\ pos' = pos) ]_vars
    /\ \A p \in 1..MaxLines : FailedBefore(p) ~> (interrupted \/ TakenUp(p))

\* C6 witness: the POST of the second line is in flight after the exchange of
\* the first line ended in a transport failure.
C6_Witness ==
    /\ pc = "inflight"
    /\ pos = 2
    /\ Len(received) = 1
    /\ received[1].kind = "exception"

(***************************************************************************)
(* C7 - the interrupt                                                       *)
(***************************************************************************)
\* C7: once an interrupt has arrived, wherever the process was, no POST and
\* no output write happens any more, the process does not end abnormally,
\* and when it has ended its exit code is 0 and the shutdown diagnostic has
\* been written exactly once, as the last diagnostic.
C7_InterruptShutsDownCleanly ==
    interrupted =>
        /\ Len(posts) = intMark.posts
        /\ Len(out) = intMark.out
        /\ pc # "crashed"
        /\ pc = "done" =>
              /\ exitCode = 0
              /\ Cardinality({ i \in DOMAIN err : err[i] = ShutdownMsg[1] }) = 1
              /\ EndsWithRecord(err, ShutdownMsg, <<>>)

(***************************************************************************)
(* C8 - the output stream carries the 200 responses only                    *)
(***************************************************************************)
\* The write of the 200 response received last has not happened: it is the
\* next step, or an interrupt arrived before it.
WriteOutstanding ==
    /\ received # <<>>
    /\ LastOutcome.kind = "response"
    /\ LastOutcome.status_code = 200
    /\ pc = "resp" \/ (interrupted /\ intMark.at = "resp")

NoLogOnOutput == \A i \in DOMAIN out : out[i] \notin LogTokens

\* C8 (as amended): the output stream holds the bodies of the 200 responses
\* received so far, each followed by one newline, in order and nothing else;
\* the body of the 200 response received last is missing from it only while
\* its write is the next step or when an interrupt arrived before that
\* write.  No diagnostic is on the output stream.
C8_OutputIsThe200Bodies ==
    /\ NoLogOnOutput
    /\ IF WriteOutstanding
       THEN out = SuccessText(SubSeq(received, 1, Len(received) - 1))
       ELSE out = SuccessText(received)

\* C8 (as claimed): the output stream is exactly the bodies of the 200
\* responses received so far, each followed by one newline, and no
\* diagnostic is on it (the state between the arrival of a response and the
\* step that handles it is not held against the claim).
C8_OutputIsAll200BodiesReceived ==
    /\ NoLogOnOutput
    /\ pc # "resp" => out = SuccessText(received)

\* C8 witness: a 200, a failure and a 200 were not all written: after a 200
\* and a 500 the output stream holds the body of the 200 alone.
C8_Witness ==
    /\ pc = "read"
    /\ Len(received) = 2
    /\ received[1].status_code = 200
    /\ received[1].text = <<"r">>
    /\ received[2].status_code = 500
    /\ received[2].text # <<>>
    /\ out = <<"r", "\n">>

(***************************************************************************)
(* C9 - exchanges are sequential and in order                               *)
(***************************************************************************)
\* C9: at most one request is in flight; a line is read only when the
\* exchange before it is over (no request in flight, every outcome received
\* and the output flushed); the POSTs are those of the non-blank lines in
\* the order read; and the output stream holds the 200 bodies in the order
\* of the lines that produced them.
C9_SequentialInOrder ==
    /\ inflight \in {0, 1}
    /\ inflight = 1 <=> pc = "inflight"
    /\ Len(received) + inflight <= Len(posts)
    /\ pc = "read" =>
          /\ inflight = 0
          /\ flushed = Len(out)
          /\ Len(received) = Len(posts)
          /\ Len(posts) = Len(NonBlankRead)
    /\ \A i \in 1..Len(posts) : IsTrimOf(posts[i].data, NonBlankRead[i])
    /\ \E k \in 0..Len(received) :
          /\ k >= Len(received) - 1
          /\ out = SuccessText(SubSeq(received, 1, k))

\* C9 witness: two lines were answered 200 with different bodies and both
\* bodies are on the output stream, flushed.
C9_Witness ==
    /\ pc = "read"
    /\ Len(received) = 2
    /\ received[1].status_code = 200
    /\ received[2].status_code = 200
    /\ received[1].text = <<"r">>
    /\ received[2].text = <<>>
    /\ posts[1].data # posts[2].data
    /\ out = <<"r", "\n", "\n">>
    /\ flushed = 3

(***************************************************************************)
(* C10 - the loop ends on end of input or interrupt only                    *)
(***************************************************************************)
\* C10: with a finite input and every request ending, the process ends; when
\* it has ended without an interrupt the whole input was read and every
\* non-blank line had its POST; and the loop is left only by the end of the
\* input or by an interrupt, never by the outcome of an exchange.
C10_EndsOnEofOrInterruptOnly ==
    /\ <>(pc \in Terminated)
    /\ [](pc = "done" /\ ~interrupted =>
            /\ pos = Len(stdin)
            /\ Len(posts) = Len(NonBlankAll)
            /\ \A i \in 1..Len(posts) : IsTrimOf(posts[i].data, NonBlankAll[i]))
    /\ [][ (pc \in InTry /\ pc' \notin InTry)
              => (interrupted' # interrupted \/ (pc = "read" /\ pos = Len(stdin))) ]_vars

\* C10 witness: the process has ended without an interrupt on an input of two
\* non-blank lines whose first exchange failed.
C10_Witness ==
    /\ pc = "done"
    /\ ~interrupted
    /\ Len(posts) = 2
    /\ received[1].kind = "exception"
    /\ received[2].status_code = 404

====
